---- MODULE Spec2Model ----
(***************************************************************************)
(* Scatter Plotter (src/app.py): the validation / classification pipeline. *)
(*                                                                         *)
(*   uploaded file -> pd.read_csv -> validate_and_prepare -> row loop      *)
(*   (parse_numeric on the "inputs" and "outputs" cell of every row)       *)
(*   -> plotted_count / skipped_count and the "Skipped records" listing.   *)
(*                                                                         *)
(* Text is a sequence of one-character strings.  A Python Optional is a    *)
(* sequence of length 0 (None) or 1 (the value).  A float is kept as the   *)
(* decimal it denotes, [kind, neg, m, e] = (-1)^neg * m * 10^e with m      *)
(* stripped of trailing zeros, or as inf / nan: a decimal of at most 15    *)
(* significant digits inside the double range identifies one double, so    *)
(* equality of these records is equality of the doubles.                   *)
(***************************************************************************)
EXTENDS Integers, Sequences, FiniteSets, TLC

VARIABLES
  pc,             \* position of the script: the block that runs next
  uploaded,       \* st.file_uploader's result (line 153)
  df,             \* the DataFrame read from it (line 159)
  message,        \* the st.info / st.error text shown before st.stop()
  ix_in,          \* column positions returned by validate_and_prepare
  ix_out,
  ix_label,
  total_records,  \* line 171
  x_vals,         \* line 172
  y_vals,         \* line 173
  skipped,        \* line 174
  i,              \* the row the loop of line 176 handles next (0-based)
  plotted_count,  \* line 198
  skipped_count,  \* line 199
  details,        \* the lines written in the "Details" tab (238-248)
  value,          \* argument of a direct call of parse_numeric
  outcome         \* what that call returned

vars == <<pc, uploaded, df, message, ix_in, ix_out, ix_label, total_records,
          x_vals, y_vals, skipped, i, plotted_count, skipped_count, details,
          value, outcome>>

(***************************************************************************)
(* Bounds of the model.                                                    *)
(***************************************************************************)
\* longest text cell enumerated exhaustively over Alphabet
MaxLen == 3
\* most data rows of an uploaded table
MaxRows == 2

(***************************************************************************)
(* Python values.                                                          *)
(***************************************************************************)
None == <<>>
Some(v) == <<v>>

Fin(neg, m, e) == [kind |-> "finite", neg |-> neg, m |-> m, e |-> e]
Inf(neg) == [kind |-> "inf", neg |-> neg, m |-> 0, e |-> 0]
NaN == [kind |-> "nan", neg |-> FALSE, m |-> 0, e |-> 0]

IsFinite(v) == v.kind = "finite"
\* the Python comparison num == 0: true of 0.0 and -0.0, false of inf and nan
EqualsZero(v) == v.kind = "finite" /\ v.m = 0

Digits == {"0", "1", "2", "3", "4", "5", "6", "7", "8", "9"}
DigitChars == <<"0", "1", "2", "3", "4", "5", "6", "7", "8", "9">>
DigitVal(c) == CHOOSE k \in 0..9 : DigitChars[k + 1] = c
\* the whitespace str.strip() removes
Whitespace == {" ", "\t", "\n"}

RECURSIVE Pow10(_)
Pow10(k) == IF k <= 0 THEN 1 ELSE 10 * Pow10(k - 1)

RECURSIVE NumDigits(_)
NumDigits(m) == IF m < 10 THEN 1 ELSE 1 + NumDigits(m \div 10)

RECURSIVE IntDigits(_)
IntDigits(m) ==
  IF m < 10 THEN <<DigitChars[m + 1]>>
  ELSE Append(IntDigits(m \div 10), DigitChars[(m % 10) + 1])

RECURSIVE Zeros(_)
Zeros(k) == IF k <= 0 THEN <<>> ELSE <<"0">> \o Zeros(k - 1)

(***************************************************************************)
(* The range of an IEEE-754 double, as float() applies it to a decimal     *)
(* m * 10^e of d digits, x = e + d - 1 its decimal exponent: the decimal   *)
(* rounds to inf from 2^1024 - 2^970 = 1.79769313486...e308 on, and to 0   *)
(* up to 2^-1075 = 2.47032822920...e-324.  Lead9 is the decimal's first    *)
(* nine digits (d <= 9 in every text of the model).                        *)
(***************************************************************************)
MaxExp10 == 308
MaxLead9 == 179769314
MinExp10 == -324
MinLead9 == 247032822

Lead9(m) == m * Pow10(9 - NumDigits(m))

RECURSIVE StripZeros(_, _)
StripZeros(m, e) ==
  IF m # 0 /\ m % 10 = 0 THEN StripZeros(m \div 10, e + 1) ELSE <<m, e>>

\* (-1)^neg * m * 10^e, of decimal exponent x, brought into the double range
Clamp(neg, m, e, x) ==
  IF x > MaxExp10 \/ (x = MaxExp10 /\ Lead9(m) >= MaxLead9) THEN Inf(neg)
  ELSE IF x < MinExp10 \/ (x = MinExp10 /\ Lead9(m) <= MinLead9)
    THEN Fin(neg, 0, 0)
  ELSE Fin(neg, m, e)

Normal(neg, n) == Clamp(neg, n[1], n[2], n[2] + NumDigits(n[1]) - 1)

\* the double nearest to (-1)^neg * m0 * 10^e0
ToDouble(neg, m0, e0) ==
  IF m0 = 0 THEN Fin(neg, 0, 0) ELSE Normal(neg, StripZeros(m0, e0))

(***************************************************************************)
(* str.strip() and float(str), line 24.                                    *)
(***************************************************************************)
RECURSIVE LStrip(_)
LStrip(s) ==
  IF s # <<>> /\ Head(s) \in Whitespace THEN LStrip(Tail(s)) ELSE s

RECURSIVE RStrip(_)
RStrip(s) ==
  IF s # <<>> /\ s[Len(s)] \in Whitespace
    THEN RStrip(SubSeq(s, 1, Len(s) - 1))
    ELSE s

Strip(s) == RStrip(LStrip(s))

\* float() reads its words (inf, nan, the exponent mark) in either case
Lower(c) ==
  CASE c = "E" -> "e" [] c = "I" -> "i" [] c = "N" -> "n" [] c = "F" -> "f"
    [] c = "A" -> "a" [] c = "T" -> "t" [] c = "Y" -> "y" [] OTHER -> c

LowerText(s) == [k \in 1..Len(s) |-> Lower(s[k])]

\* first position of character c in s, 0 when it does not occur
IndexOf(s, c) ==
  IF \E k \in 1..Len(s) : s[k] = c
    THEN CHOOSE k \in 1..Len(s) : s[k] = c /\ \A j \in 1..(k - 1) : s[j] # c
    ELSE 0

\* digit ("_"? digit)*: an underscore only between two digits
IsDigitPart(s) ==
  /\ s # <<>>
  /\ \A k \in 1..Len(s) : s[k] \in Digits \cup {"_"}
  /\ s[1] \in Digits
  /\ s[Len(s)] \in Digits
  /\ \A k \in 1..(Len(s) - 1) : ~(s[k] = "_" /\ s[k + 1] = "_")

RECURSIVE DigitsOnly(_)
DigitsOnly(s) ==
  IF s = <<>> THEN <<>>
  ELSE IF Head(s) = "_" THEN DigitsOnly(Tail(s))
  ELSE <<Head(s)>> \o DigitsOnly(Tail(s))

RECURSIVE DigitsValue(_)
DigitsValue(s) ==
  IF s = <<>> THEN 0
  ELSE 10 * DigitsValue(SubSeq(s, 1, Len(s) - 1)) + DigitVal(s[Len(s)])

Returned(v) == [exc |-> None, val |-> v]
Raised(e) == [exc |-> Some(e), val |-> NaN]

\* the decimal: mantissa digits, fraction digits, signed exponent digits
FloatOfParts(neg, intPart, fracPart, hasExp, expNeg, expPart) ==
  IF /\ intPart = <<>> \/ IsDigitPart(intPart)
     /\ fracPart = <<>> \/ IsDigitPart(fracPart)
     /\ intPart # <<>> \/ fracPart # <<>>
     /\ hasExp => IsDigitPart(expPart)
    THEN Returned(ToDouble(
           neg,
           DigitsValue(DigitsOnly(intPart) \o DigitsOnly(fracPart)),
           (IF expNeg THEN 0 - DigitsValue(DigitsOnly(expPart))
                      ELSE DigitsValue(DigitsOnly(expPart)))
             - Len(DigitsOnly(fracPart))))
    ELSE Raised("ValueError")

FloatOfMantissa(neg, mant, dot, hasExp, expo) ==
  FloatOfParts(neg,
               IF dot = 0 THEN mant ELSE SubSeq(mant, 1, dot - 1),
               IF dot = 0 THEN <<>> ELSE SubSeq(mant, dot + 1, Len(mant)),
               hasExp,
               expo # <<>> /\ expo[1] = "-",
               IF expo # <<>> /\ expo[1] \in {"+", "-"} THEN Tail(expo) ELSE expo)

FloatOfDecimal(neg, mant, hasExp, expo) ==
  FloatOfMantissa(neg, mant, IndexOf(mant, "."), hasExp, expo)

FloatOfNumber(neg, body, ePos) ==
  IF ePos = 0 THEN FloatOfDecimal(neg, body, FALSE, <<>>)
  ELSE FloatOfDecimal(neg, SubSeq(body, 1, ePos - 1), TRUE,
                      SubSeq(body, ePos + 1, Len(body)))

FloatOfBody(neg, body) ==
  IF body \in {<<"i", "n", "f">>, <<"i", "n", "f", "i", "n", "i", "t", "y">>}
    THEN Returned(Inf(neg))
  ELSE IF body = <<"n", "a", "n">> THEN Returned(NaN)
  ELSE FloatOfNumber(neg, body, IndexOf(body, "e"))

FloatOfStripped(s) ==
  IF s # <<>> /\ s[1] \in {"+", "-"}
    THEN FloatOfBody(s[1] = "-", Tail(s))
    ELSE FloatOfBody(FALSE, s)

\* float(s) for a str s: the float, or the ValueError it raises
PyFloat(s0) == FloatOfStripped(LowerText(Strip(s0)))

(***************************************************************************)
(* str(value), line 24: the cell's text, a float's repr, an integer's      *)
(* digits.                                                                 *)
(***************************************************************************)
Two(k) == IF k < 10 THEN <<"0">> \o IntDigits(k) ELSE IntDigits(k)

\* digits D of the mantissa, x the decimal exponent: repr switches to the
\* exponent form below 1e-4 and from 1e16 on
ReprOfDigits(sign, D, e, x) ==
  IF x < -4 \/ x >= 16
    THEN sign \o <<D[1]>>
           \o (IF Len(D) > 1 THEN <<".">> \o SubSeq(D, 2, Len(D)) ELSE <<>>)
           \o <<"e">> \o (IF x < 0 THEN <<"-">> ELSE <<"+">>)
           \o Two(IF x < 0 THEN 0 - x ELSE x)
  ELSE IF e >= 0 THEN sign \o D \o Zeros(e) \o <<".", "0">>
  ELSE IF Len(D) + e > 0
    THEN sign \o SubSeq(D, 1, Len(D) + e) \o <<".">>
           \o SubSeq(D, Len(D) + e + 1, Len(D))
  ELSE sign \o <<"0", ".">> \o Zeros(0 - (Len(D) + e)) \o D

SignOf(v) == IF v.neg THEN <<"-">> ELSE <<>>

FloatRepr(v) ==
  IF v.kind = "nan" THEN <<"n", "a", "n">>
  ELSE IF v.kind = "inf" THEN SignOf(v) \o <<"i", "n", "f">>
  ELSE IF v.m = 0 THEN SignOf(v) \o <<"0", ".", "0">>
  ELSE ReprOfDigits(SignOf(v), IntDigits(v.m), v.e, v.e + NumDigits(v.m) - 1)

IntRepr(v) == SignOf(v) \o IntDigits(v.m) \o Zeros(v.e)

(***************************************************************************)
(* A cell of the DataFrame: the missing marker (NaN / None), a str, a      *)
(* float or an int.                                                        *)
(***************************************************************************)
Missing == [kind |-> "missing", text |-> <<>>, num |-> NaN]
Text(s) == [kind |-> "text", text |-> s, num |-> NaN]
FloatCell(v) == [kind |-> "float", text |-> <<>>, num |-> v]
IntCell(v) == [kind |-> "int", text |-> <<>>, num |-> v]

\* pd.isna(value), line 21: None and NaN
IsNa(c) == c.kind = "missing" \/ (c.kind = "float" /\ c.num.kind = "nan")

Str(c) ==
  CASE c.kind = "text" -> c.text
    [] c.kind = "float" -> FloatRepr(c.num)
    [] c.kind = "int" -> IntRepr(c.num)
    [] OTHER -> <<"n", "a", "n">>

(***************************************************************************)
(* parse_numeric, lines 20-29.  What a call does: return its 3-tuple, or   *)
(* raise an exception the try of line 23 does not catch.                   *)
(***************************************************************************)
Return(ok, num, reason) == [exc |-> None, ret |-> <<ok, num, reason>>]
Raise(e) == [exc |-> e, ret |-> <<FALSE, None, None>>]

\* Classify without the test of line 27
Classify_zero_accepted(r) ==
  IF r.exc = Some("ValueError") THEN Return(FALSE, None, Some("non-numeric"))
  ELSE IF r.exc # None THEN Raise(r.exc)
  ELSE Return(TRUE, Some(r.val), None)

\* Classify without the except clause of line 25
Classify_uncaught(r) ==
  IF r.exc # None THEN Raise(r.exc)
  ELSE IF EqualsZero(r.val) THEN Return(FALSE, None, Some("zero"))
  ELSE Return(TRUE, Some(r.val), None)

\* lines 25-29, r what float() did
Classify(r) ==
  IF r.exc = Some("ValueError") THEN Return(FALSE, None, Some("non-numeric"))
  ELSE IF r.exc # None THEN Raise(r.exc)
  ELSE IF EqualsZero(r.val) THEN Return(FALSE, None, Some("zero"))
  ELSE Return(TRUE, Some(r.val), None)

parse_numeric(v) ==
  IF IsNa(v) THEN Return(FALSE, None, Some("empty"))
  ELSE Classify(PyFloat(Strip(Str(v))))

(***************************************************************************)
(* validate_and_prepare, lines 31-42.  A DataFrame is [frame, columns,     *)
(* rows]: the column names in order and, per data row, its cells in column *)
(* order.  The result is the tuple returned or the ValueError raised.      *)
(***************************************************************************)
NotCsvMsg == "The uploaded file could not be read as a CSV."
MissingColumnsMsg ==
  "The CSV must contain header columns named exactly 'inputs' and 'outputs'."
EmptyTableMsg == "The CSV has the required columns but contains no records."

InCols(cols, name) == \E k \in 1..Len(cols) : cols[k] = name
\* list.index: the 0-based position of the first occurrence
ColIndex(cols, name) == IndexOf(cols, name) - 1

\* validate_and_prepare returning the two required positions exchanged
validate_and_prepare_swapped(d) ==
  LET cols == d.columns
  IN IF ~d.frame THEN [exc |-> Some(NotCsvMsg), ret |-> <<>>]
     ELSE IF ~InCols(cols, "inputs") \/ ~InCols(cols, "outputs")
       THEN [exc |-> Some(MissingColumnsMsg), ret |-> <<>>]
     ELSE IF Len(d.rows) = 0
       THEN [exc |-> Some(EmptyTableMsg), ret |-> <<>>]
     ELSE [exc |-> None,
           ret |-> <<ColIndex(cols, "outputs"),
                     ColIndex(cols, "inputs"),
                     IF InCols(cols, "labels")
                       THEN Some(ColIndex(cols, "labels")) ELSE None>>]

\* validate_and_prepare testing the row count before the column names
validate_and_prepare_rows_first(d) ==
  LET cols == d.columns
  IN IF ~d.frame THEN [exc |-> Some(NotCsvMsg), ret |-> <<>>]
     ELSE IF Len(d.rows) = 0
       THEN [exc |-> Some(EmptyTableMsg), ret |-> <<>>]
     ELSE IF ~InCols(cols, "inputs") \/ ~InCols(cols, "outputs")
       THEN [exc |-> Some(MissingColumnsMsg), ret |-> <<>>]
     ELSE [exc |-> None,
           ret |-> <<ColIndex(cols, "inputs"),
                     ColIndex(cols, "outputs"),
                     IF InCols(cols, "labels")
                       THEN Some(ColIndex(cols, "labels")) ELSE None>>]

validate_and_prepare(d) ==
  LET cols == d.columns
  IN IF ~d.frame THEN [exc |-> Some(NotCsvMsg), ret |-> <<>>]
     ELSE IF ~InCols(cols, "inputs") \/ ~InCols(cols, "outputs")
       THEN [exc |-> Some(MissingColumnsMsg), ret |-> <<>>]
     ELSE IF Len(d.rows) = 0
       THEN [exc |-> Some(EmptyTableMsg), ret |-> <<>>]
     ELSE [exc |-> None,
           ret |-> <<ColIndex(cols, "inputs"),
                     ColIndex(cols, "outputs"),
                     IF InCols(cols, "labels")
                       THEN Some(ColIndex(cols, "labels")) ELSE None>>]

(***************************************************************************)
(* The body of the row loop, lines 176-196.                                *)
(***************************************************************************)
\* RowNumber without the header row
RowNumber_from_one(k) == k + 1

\* line 177: the header row is 1
RowNumber(k) == k + 2

\* lines 178-182
Label(row, ixl) ==
  IF ixl # None /\ ~IsNa(row[ixl[1] + 1])
    THEN Strip(Str(row[ixl[1] + 1]))
    ELSE <<>>

\* Accepted looking at the inputs cell alone
Accepted_inputs_only(in, out) == in.ret[1]

\* line 187
Accepted(in, out) == in.ret[1] /\ out.ret[1]

\* Reasons with the second test made an elif
Reasons_first_only(in, out) ==
  IF ~in.ret[1] THEN <<"inputs is " \o in.ret[3][1]>>
  ELSE IF ~out.ret[1] THEN <<"outputs is " \o out.ret[3][1]>>
  ELSE <<>>

\* lines 191-195
Reasons(in, out) ==
  (IF ~in.ret[1] THEN <<"inputs is " \o in.ret[3][1]>> ELSE <<>>)
    \o (IF ~out.ret[1] THEN <<"outputs is " \o out.ret[3][1]>> ELSE <<>>)

\* lines 187-189: the lists after the row
NextX(xs, in, out) == IF Accepted(in, out) THEN Append(xs, in.ret[2]) ELSE xs
NextY(ys, in, out) == IF Accepted(in, out) THEN Append(ys, out.ret[2]) ELSE ys

\* NextSkipped with the else of line 190 narrowed to "elif not in_ok"
NextSkipped_elif(sk, k, label, in, out) ==
  IF Accepted(in, out) THEN sk
  ELSE IF ~in.ret[1] THEN Append(sk, <<RowNumber(k), label, Reasons(in, out)>>)
  ELSE sk

\* lines 190-196
NextSkipped(sk, k, label, in, out) ==
  IF Accepted(in, out) THEN sk
  ELSE Append(sk, <<RowNumber(k), label, Reasons(in, out)>>)

(***************************************************************************)
(* Inputs.  Direct calls of parse_numeric take every text over Alphabet up *)
(* to MaxLen characters, the texts of ExtraTexts and a few floats and      *)
(* ints.  Uploaded tables take the cells of a column from CellsFor:        *)
(* pd.read_csv turns an empty field into the missing marker, so no cell of *)
(* a table is the empty text.                                              *)
(***************************************************************************)
Alphabet == {" ", "0", "2", "-", ".", "e", "x", "_"}

ExtraTexts ==
  { <<"i", "n", "f">>, <<"-", "i", "n", "f">>, <<" ", "I", "N", "F", " ">>,
    <<"I", "n", "f", "i", "n", "i", "t", "y">>,
    <<"n", "a", "n">>, <<"-", "N", "a", "N">>,
    <<"1", "e", "3", "0", "9">>, <<"2", "e", "3", "0", "8">>,
    <<"1", "e", "3", "0", "8">>, <<"1", "e", "-", "4", "0", "0">>,
    <<"+", "2", "E", "+", "2">>, <<"1", "2", ".", "5", "0">>,
    <<"\t", "7", "\n">>, <<"T", "r", "u", "e">> }

FloatValues ==
  { Fin(FALSE, 0, 0), Fin(TRUE, 0, 0), Fin(FALSE, 25, -1), Fin(TRUE, 2, 0),
    Fin(FALSE, 1, 22), Fin(FALSE, 1, -5), Fin(FALSE, 125, -3),
    Inf(FALSE), Inf(TRUE), NaN }

IntValues == {Fin(FALSE, 0, 0), Fin(FALSE, 2, 0), Fin(TRUE, 3, 0), Fin(FALSE, 1, 1)}

\* the cells parse_numeric is called on directly
IsCallCell(c) ==
  \/ c = Missing
  \/ \E k \in 0..MaxLen : \E s \in [1..k -> Alphabet] : c = Text(s)
  \/ \E s \in ExtraTexts : c = Text(s)
  \/ \E v \in FloatValues : c = FloatCell(v)
  \/ \E v \in IntValues : c = IntCell(v)

InputCells ==
  { Missing, Text(<<"0">>), Text(<<"x">>), FloatCell(Fin(FALSE, 25, -1)),
    Text(<<"i", "n", "f">>) }

OutputCells ==
  {Missing, Text(<<"0">>), Text(<<"x">>), Text(<<" ", "-", "4", "e", "0", " ">>)}

LabelCells == {Missing, Text(<<" ", "L", "1", " ">>)}

CellsFor(name) ==
  IF name = "inputs" THEN InputCells
  ELSE IF name = "outputs" THEN OutputCells
  ELSE LabelCells

ColumnLists ==
  { <<"inputs", "outputs">>, <<"labels", "outputs", "inputs">>,
    <<"inputs", "labels">>, <<"Inputs", "outputs">>, <<"labels">> }

RowsOf(cols) ==
  {r \in [1..Len(cols) -> InputCells \cup OutputCells \cup LabelCells] :
     \A k \in 1..Len(cols) : r[k] \in CellsFor(cols[k])}

NoFile == [kind |-> "none", columns |-> <<>>, rows |-> <<>>]
\* a file pd.read_csv cannot parse
BadFile == [kind |-> "bad", columns |-> <<>>, rows |-> <<>>]

CsvFile(cols, rows) == [kind |-> "csv", columns |-> cols, rows |-> rows]

\* what st.file_uploader can hand over
IsUpload(u) ==
  \/ u = NoFile
  \/ u = BadFile
  \/ \E cols \in ColumnLists : \E n \in 0..MaxRows :
       \E rows \in [1..n -> RowsOf(cols)] : u = CsvFile(cols, rows)

NoFrame == [frame |-> FALSE, columns |-> <<>>, rows |-> <<>>]

(***************************************************************************)
(* The script, top to bottom.                                              *)
(***************************************************************************)
\* the text of line 155, without its closing ellipsis character
AwaitingMsg == "Awaiting upload"
ParseErrorMsg == "The file is not a valid .csv (parse error)."

Init ==
  /\ pc = "upload"
  /\ IsUpload(uploaded)
  /\ df = NoFrame
  /\ message = None
  /\ ix_in = None
  /\ ix_out = None
  /\ ix_label = None
  /\ total_records = None
  /\ x_vals = <<>>
  /\ y_vals = <<>>
  /\ skipped = <<>>
  /\ i = 0
  /\ plotted_count = None
  /\ skipped_count = None
  /\ details = <<>>
  /\ value = Missing
  /\ outcome = None

\* lines 153-156
AwaitUpload ==
  /\ pc = "upload"
  /\ IF uploaded.kind = "none"
       THEN message' = Some(AwaitingMsg) /\ pc' = "stopped"
       ELSE message' = message /\ pc' = "read_csv"
  /\ UNCHANGED <<uploaded, df, ix_in, ix_out, ix_label, total_records, x_vals,
                 y_vals, skipped, i, plotted_count, skipped_count, details,
                 value, outcome>>

\* lines 158-162
ReadCsv ==
  /\ pc = "read_csv"
  /\ IF uploaded.kind = "bad"
       THEN /\ message' = Some(ParseErrorMsg)
            /\ pc' = "stopped"
            /\ df' = df
       ELSE /\ df' = [frame |-> TRUE, columns |-> uploaded.columns,
                      rows |-> uploaded.rows]
            /\ pc' = "validate"
            /\ message' = message
  /\ UNCHANGED <<uploaded, ix_in, ix_out, ix_label, total_records, x_vals,
                 y_vals, skipped, i, plotted_count, skipped_count, details,
                 value, outcome>>

\* lines 164-168, r what validate_and_prepare did
Validated(r) ==
  IF r.exc # None
    THEN /\ message' = r.exc
         /\ pc' = "stopped"
         /\ UNCHANGED <<ix_in, ix_out, ix_label>>
    ELSE /\ ix_in' = Some(r.ret[1])
         /\ ix_out' = Some(r.ret[2])
         /\ ix_label' = r.ret[3]
         /\ pc' = "process_rows"
         /\ message' = message

Validate ==
  /\ pc = "validate"
  /\ Validated(validate_and_prepare(df))
  /\ UNCHANGED <<uploaded, df, total_records, x_vals, y_vals, skipped, i,
                 plotted_count, skipped_count, details, value, outcome>>

\* lines 171-174
ProcessRows ==
  /\ pc = "process_rows"
  /\ total_records' = Some(Len(df.rows))
  /\ x_vals' = <<>>
  /\ y_vals' = <<>>
  /\ skipped' = <<>>
  /\ i' = 0
  /\ pc' = "loop"
  /\ UNCHANGED <<uploaded, df, message, ix_in, ix_out, ix_label, plotted_count,
                 skipped_count, details, value, outcome>>

\* lines 184-196 for row k, in and out the two calls of parse_numeric
ClassifyRow(k, label, in, out) ==
  IF in.exc # None \/ out.exc # None
    THEN /\ pc' = "crashed"
         /\ UNCHANGED <<x_vals, y_vals, skipped, i>>
    ELSE /\ x_vals' = NextX(x_vals, in, out)
         /\ y_vals' = NextY(y_vals, in, out)
         /\ skipped' = NextSkipped(skipped, k, label, in, out)
         /\ i' = k + 1
         /\ pc' = pc

ProcessRow(k, row) ==
  ClassifyRow(k, Label(row, ix_label), parse_numeric(row[ix_in[1] + 1]),
              parse_numeric(row[ix_out[1] + 1]))

\* lines 176-196, one iteration: row i of the RangeIndex read_csv gives
LoopStep ==
  /\ pc = "loop"
  /\ i < Len(df.rows)
  /\ ProcessRow(i, df.rows[i + 1])
  /\ UNCHANGED <<uploaded, df, message, ix_in, ix_out, ix_label, total_records,
                 plotted_count, skipped_count, details, value, outcome>>

\* lines 198-199, once the loop has run out of rows
CountRecords ==
  /\ pc = "loop"
  /\ i = Len(df.rows)
  /\ plotted_count' = Some(Len(x_vals))
  /\ skipped_count' = Some(Len(skipped))
  /\ pc' = "render"
  /\ UNCHANGED <<uploaded, df, message, ix_in, ix_out, ix_label, total_records,
                 x_vals, y_vals, skipped, i, details, value, outcome>>

\* lines 238-248: the "Details" tab, one line per skipped record
Render ==
  /\ pc = "render"
  /\ details' = IF skipped_count[1] # 0
                  THEN skipped
                  ELSE << <<0, <<>>, <<"No records skipped.">>>> >>
  /\ pc' = "done"
  /\ UNCHANGED <<uploaded, df, message, ix_in, ix_out, ix_label, total_records,
                 x_vals, y_vals, skipped, i, plotted_count, skipped_count,
                 value, outcome>>

Next ==
  \/ AwaitUpload
  \/ ReadCsv
  \/ Validate
  \/ ProcessRows
  \/ LoopStep
  \/ CountRecords
  \/ Render

Spec == Init /\ [][Next]_vars

(***************************************************************************)
(* parse_numeric called on its own, on every cell of AllCells.             *)
(***************************************************************************)
InitParse ==
  /\ pc = "call"
  /\ IsCallCell(value)
  /\ outcome = None
  /\ uploaded = NoFile
  /\ df = NoFrame
  /\ message = None
  /\ ix_in = None
  /\ ix_out = None
  /\ ix_label = None
  /\ total_records = None
  /\ x_vals = <<>>
  /\ y_vals = <<>>
  /\ skipped = <<>>
  /\ i = 0
  /\ plotted_count = None
  /\ skipped_count = None
  /\ details = <<>>

CallParseNumeric ==
  /\ pc = "call"
  /\ outcome' = Some(parse_numeric(value))
  /\ pc' = "returned"
  /\ UNCHANGED <<uploaded, df, message, ix_in, ix_out, ix_label, total_records,
                 x_vals, y_vals, skipped, i, plotted_count, skipped_count,
                 details, value>>

NextParse == CallParseNumeric

SpecParse == InitParse /\ [][NextParse]_vars

(***************************************************************************)
(* Properties.  The rows are read back through the column names, not       *)
(* through the positions the validator returned.                           *)
(***************************************************************************)
Classifying == pc \in {"loop", "render", "done"}
Finished == pc \in {"render", "done"}
PastValidation == df.frame /\ pc \notin {"upload", "read_csv", "validate"}
HasBoth(cols) == InCols(cols, "inputs") /\ InCols(cols, "outputs")

\* the "inputs" / "outputs" cell of data row k (0-based)
InputsCell(k) == df.rows[k + 1][IndexOf(df.columns, "inputs")]
OutputsCell(k) == df.rows[k + 1][IndexOf(df.columns, "outputs")]
Succeeded(r) == r.exc = None /\ r.ret[1]
\* parse_numeric on the cells a table can hold, computed once
ParseOf == [c \in InputCells \cup OutputCells |-> parse_numeric(c)]
ParsesOk(c) == Succeeded(ParseOf[c])
RowOk(k) == ParsesOk(InputsCell(k)) /\ ParsesOk(OutputsCell(k))

\* the indices below n, in increasing order, of the rows that are (not) RowOk
RECURSIVE OkRows(_)
OkRows(n) ==
  IF n = 0 THEN <<>>
  ELSE IF RowOk(n - 1) THEN Append(OkRows(n - 1), n - 1) ELSE OkRows(n - 1)

RECURSIVE FailedRows(_)
FailedRows(n) ==
  IF n = 0 THEN <<>>
  ELSE IF RowOk(n - 1) THEN FailedRows(n - 1)
  ELSE Append(FailedRows(n - 1), n - 1)

RejectedIndices == {skipped[j][1] - 2 : j \in 1..Len(skipped)}

\* the indices below n that no skip entry names, in increasing order
RECURSIVE Unrejected(_)
Unrejected(n) ==
  IF n = 0 THEN <<>>
  ELSE IF (n - 1) \in RejectedIndices THEN Unrejected(n - 1)
  ELSE Append(Unrejected(n - 1), n - 1)

MissingColumnsReported ==
  (PastValidation /\ ~HasBoth(df.columns)) =>
    pc = "stopped" /\ message = Some(MissingColumnsMsg)

MissingColumnsWitness ==
  /\ pc = "stopped"
  /\ df.frame
  /\ Len(df.rows) = 0
  /\ InCols(df.columns, "inputs")
  /\ ~InCols(df.columns, "outputs")
  /\ message = Some(MissingColumnsMsg)

\* C3: with both required columns, a table of zero rows is stopped with the
\* empty-table message, and a table of at least one row passes validation
\* with ix_in, ix_out the positions of "inputs", "outputs" and ix_label the
\* position of "labels", or None when there is no such column.
ValidationResult ==
  (PastValidation /\ HasBoth(df.columns)) =>
    IF Len(df.rows) = 0
      THEN pc = "stopped" /\ message = Some(EmptyTableMsg)
      ELSE /\ pc # "stopped"
           /\ message = None
           /\ ix_in # None /\ df.columns[ix_in[1] + 1] = "inputs"
           /\ ix_out # None /\ df.columns[ix_out[1] + 1] = "outputs"
           /\ IF InCols(df.columns, "labels")
                THEN ix_label # None /\ df.columns[ix_label[1] + 1] = "labels"
                ELSE ix_label = None

ValidationWitness ==
  /\ pc = "process_rows"
  /\ df.columns = <<"labels", "outputs", "inputs">>
  /\ ix_in = Some(2)
  /\ ix_out = Some(1)
  /\ ix_label = Some(0)

\* C4: pipeline ordering.  A run that shows a message has stopped for good
\* with nothing classified: no row handled, no pair, no skip entry, no count.
\* A run that passed validation never stops or crashes on a row: every step
\* of the loop moves on to the next row until the rows run out, and only then
\* does the run leave the loop, for the counts and the report.
NothingClassified ==
  /\ total_records = None
  /\ x_vals = <<>>
  /\ y_vals = <<>>
  /\ skipped = <<>>
  /\ i = 0
  /\ plotted_count = None
  /\ skipped_count = None
  /\ details = <<>>

ParseOutcomes ==
  pc = "returned" =>
    /\ outcome[1].exc = None
    /\ \/ /\ outcome[1].ret[1] = TRUE
          /\ outcome[1].ret[2] # None
          /\ ~EqualsZero(outcome[1].ret[2][1])
          /\ outcome[1].ret[3] = None
       \/ /\ outcome[1].ret[1] = FALSE
          /\ outcome[1].ret[2] = None
          /\ outcome[1].ret[3] \in
               {Some("empty"), Some("non-numeric"), Some("zero")}

ParseOutcomesWitness ==
  /\ pc = "returned"
  /\ value = Text(<<"-", "0", ".">>)
  /\ outcome[1].ret = <<FALSE, None, Some("zero")>>

\* C6: only finite numbers are accepted: no element of x_vals or y_vals is
\* infinite or not-a-number.
AcceptedPairsFinite ==
  Classifying =>
    \A j \in 1..Len(x_vals) :
      /\ x_vals[j] # None /\ IsFinite(x_vals[j][1])
      /\ y_vals[j] # None /\ IsFinite(y_vals[j][1])

\* C7: a missing cell and a cell whose text is empty both yield
\* (False, None, "empty").
EmptyCellsAreEmpty ==
  (pc = "returned" /\ (IsNa(value) \/ (value.kind = "text" /\ value.text = <<>>)))
    => outcome[1].ret = <<FALSE, None, Some("empty")>>

AcceptedLaw ==
  Classifying =>
    LET ok == OkRows(i)
    IN /\ Len(x_vals) = Len(ok)
       /\ Len(y_vals) = Len(ok)
       /\ \A j \in 1..Len(ok) :
            /\ j <= Len(x_vals) /\ j <= Len(y_vals)
            /\ x_vals[j] = ParseOf[InputsCell(ok[j])].ret[2]
            /\ y_vals[j] = ParseOf[OutputsCell(ok[j])].ret[2]
            /\ x_vals[j] # None
            /\ y_vals[j] # None

AcceptedWitness ==
  /\ pc = "done"
  /\ Len(x_vals) = 2
  /\ x_vals[1] = Some(Inf(FALSE))
  /\ x_vals[2] = Some(Fin(FALSE, 25, -1))
  /\ y_vals[1] = y_vals[2]

\* C10: the reasons of a skip entry are "inputs is <reason>" iff the inputs
\* cell failed, then "outputs is <reason>" iff the outputs cell failed: one
\* or two reasons, inputs first, the outputs cell reported even when the
\* inputs cell failed.
ReasonOf(column, r) ==
  IF Succeeded(r) THEN <<>> ELSE <<column \o " is " \o r.ret[3][1]>>

ExpectedReasons(k) ==
  ReasonOf("inputs", ParseOf[InputsCell(k)])
    \o ReasonOf("outputs", ParseOf[OutputsCell(k)])

ReasonsLaw ==
  Classifying =>
    \A j \in 1..Len(skipped) :
      /\ skipped[j][1] - 2 \in 0..(Len(df.rows) - 1)
      /\ skipped[j][3] = ExpectedReasons(skipped[j][1] - 2)
      /\ Len(skipped[j][3]) \in {1, 2}
      /\ skipped[j][3][1] \in {"inputs is empty", "inputs is non-numeric",
                               "inputs is zero", "outputs is empty",
                               "outputs is non-numeric", "outputs is zero"}
      /\ Len(skipped[j][3]) = 2 =>
           skipped[j][3][2] \in {"outputs is empty", "outputs is non-numeric",
                                 "outputs is zero"}

ReasonsWitness ==
  /\ pc = "done"
  /\ Len(skipped) >= 1
  /\ InputsCell(skipped[1][1] - 2) = Missing
  /\ OutputsCell(skipped[1][1] - 2) = Text(<<"0">>)
  /\ skipped[1][3] = <<"inputs is empty", "outputs is zero">>

====
